---- MODULE Spec2Model ----
(***************************************************************************)
(* Model of the FDE-Pipeline extract-and-load utility:                     *)
(*   CSVExtractor.camel_to_snake          (column normalization)           *)
(*   JSONExtractor.load_to_landing        (Document Loader)                *)
(*   CSVExtractor.load_to_landing         (Tabular Loader)                 *)
(*   APIExtractor / PublicS3Extractor / MainExtractor extract_all          *)
(* Column names are sequences of one-character strings so that the        *)
(* normalization is computed character by character as the regular        *)
(* expressions of the source do.                                           *)
(***************************************************************************)
EXTENDS Integers, Sequences, FiniteSets, TLC

VARIABLES
    name,        \* camel_to_snake: the input column name
    out,         \* camel_to_snake(name)
    out2,        \* camel_to_snake(out)
    npc,         \* position of the normalization run: "input", "once", "twice"
    connection,  \* DatabaseConnector.connection: "none", "open", "broken", "closed"
    engine,      \* DatabaseConnector.engine: "none", "created"
    txn,         \* transaction status of the psycopg2 connection
    tables,      \* committed rows of every destination table
    catalog,     \* information_schema.columns: column names of every table
    clock,       \* the last value datetime.now() returned
    last,        \* observation of the last loader call
    orch         \* state of the orchestrator run

vars == <<name, out, out2, npc, connection, engine, txn, tables, catalog, clock, last, orch>>

normVars == <<name, out, out2, npc>>
dbVars == <<connection, engine, txn, tables, catalog, clock>>

(***************************************************************************)
(* Bounds                                                                  *)
(***************************************************************************)
MaxLen == 4
\* records of one load call
MaxBatch == 2
\* loader calls before the recorded one
MaxHistory == 1
\* the largest value datetime.now() returns
MaxClock == 1
\* entries of one mapping of the configuration
MaxEntries == 2
\* characters of a table name handed to get_table_columns
MaxName == 3
\* calls of run_extraction on one MainExtractor
MaxRuns == 2
\* columns of an input table of the column filter
MaxCols == 2

(***************************************************************************)
(* Characters                                                              *)
(***************************************************************************)
LowerChars == {"a","b","c","d","e","f","g","h","i","j","k","l","m",
               "n","o","p","q","r","s","t","u","v","w","x","y","z"}

UpperChars == {"A","B","C","D","E","F","G","H","I","J","K","L","M",
               "N","O","P","Q","R","S","T","U","V","W","X","Y","Z"}

DigitChars == {"0","1","2","3","4","5","6","7","8","9"}

\* what \s matches among the characters of the model, and the hyphen
SpaceOrDash == {" ", "\t", "-"}

\* str.lower() on one character
ToLowerTable == [A |-> "a", B |-> "b", C |-> "c", D |-> "d", E |-> "e",
                 F |-> "f", G |-> "g", H |-> "h", I |-> "i", J |-> "j",
                 K |-> "k", L |-> "l", M |-> "m", N |-> "n", O |-> "o",
                 P |-> "p", Q |-> "q", R |-> "r", S |-> "s", T |-> "t",
                 U |-> "u", V |-> "v", W |-> "w", X |-> "x", Y |-> "y",
                 Z |-> "z"]

LowerChar(c) == IF c \in UpperChars THEN ToLowerTable[c] ELSE c

\* str.lower()
Lower(s) == [i \in 1..Len(s) |-> LowerChar(s[i])]

RECURSIVE SubSpaceDash(_)
\* re.sub(r'[\s\-]+', '_', name): every maximal run becomes one underscore
SubSpaceDash(s) ==
    IF s = <<>> THEN <<>>
    ELSE IF Head(s) \in SpaceOrDash
         THEN IF Len(s) > 1 /\ s[2] \in SpaceOrDash
              THEN SubSpaceDash(Tail(s))
              ELSE <<"_">> \o SubSpaceDash(Tail(s))
         ELSE <<Head(s)>> \o SubSpaceDash(Tail(s))

RECURSIVE SubCamel(_)
\* mutant of SubCamel: the character class before the capital lacks the digits
SubCamelNoDigit(s) ==
    IF Len(s) < 2 THEN s
    ELSE IF s[1] \in LowerChars /\ s[2] \in UpperChars
         THEN <<s[1], "_", s[2]>> \o SubCamel(Tail(Tail(s)))
         ELSE <<Head(s)>> \o SubCamel(Tail(s))

\* re.sub(r'([a-z0-9])([A-Z])', r'\1_\2', name): leftmost, non-overlapping
SubCamel(s) ==
    IF Len(s) < 2 THEN s
    ELSE IF s[1] \in (LowerChars \cup DigitChars) /\ s[2] \in UpperChars
         THEN <<s[1], "_", s[2]>> \o SubCamel(Tail(Tail(s)))
         ELSE <<Head(s)>> \o SubCamel(Tail(s))

RECURSIVE StripLeft(_)
StripLeft(s) ==
    IF s # <<>> /\ Head(s) = "_" THEN StripLeft(Tail(s)) ELSE s

RECURSIVE StripRight(_)
StripRight(s) ==
    IF s # <<>> /\ s[Len(s)] = "_" THEN StripRight(SubSeq(s, 1, Len(s) - 1)) ELSE s

\* str.strip('_')
Strip(s) == StripRight(StripLeft(s))

RECURSIVE SubUnderscores(_)
\* re.sub(r'_+', '_', name)
SubUnderscores(s) ==
    IF s = <<>> THEN <<>>
    ELSE IF Head(s) = "_" /\ Len(s) > 1 /\ s[2] = "_"
         THEN SubUnderscores(Tail(s))
         ELSE <<Head(s)>> \o SubUnderscores(Tail(s))

\* mutant of camel_to_snake: the underscores are stripped before the
\* substitutions instead of after them
camel_to_snake_StripFirst(s) == SubUnderscores(Lower(SubCamel(SubSpaceDash(Strip(s)))))

\* CSVExtractor.camel_to_snake
camel_to_snake(s) == SubUnderscores(Strip(Lower(SubCamel(SubSpaceDash(s)))))

(***************************************************************************)
(* Specification of the normalization alone: every name over the alphabet *)
(* up to MaxLen characters is normalized, then normalized again.           *)
(***************************************************************************)
Alphabet == {"a", "B", "1", " ", "-", "_"}

RECURSIVE NamesUpTo(_)
NamesUpTo(n) ==
    IF n = 0 THEN {<<>>}
    ELSE LET shorter == NamesUpTo(n - 1)
         IN  shorter \cup {Append(s, c) : s \in {t \in shorter : Len(t) = n - 1}, c \in Alphabet}

\* the names of the spec's examples
userID == <<"u","s","e","r","I","D">>
FirstName == <<"F","i","r","s","t"," ","N","a","m","e">>
orderDate == <<"o","r","d","e","r","-","d","a","t","e">>
user_id == <<"u","s","e","r","_","i","d">>
first_name == <<"f","i","r","s","t","_","n","a","m","e">>
order_date == <<"o","r","d","e","r","_","d","a","t","e">>

\* the column names the loaders test for, and the columns of the model's tables
raw_data == <<"r","a","w","_","d","a","t","a">>
loaded_at == <<"l","o","a","d","e","d","_","a","t">>
file_name == <<"f","i","l","e","_","n","a","m","e">>
api_endpoint == <<"a","p","i","_","e","n","d","p","o","i","n","t">>
request_timestamp == <<"r","e","q","u","e","s","t","_","t","i","m","e","s","t","a","m","p">>
response_status == <<"r","e","s","p","o","n","s","e","_","s","t","a","t","u","s">>
source_file == <<"s","o","u","r","c","e","_","f","i","l","e">>
price == <<"p","r","i","c","e">>
col_id == <<"i","d">>
Id == <<"I","d">>
Price == <<"P","r","i","c","e">>

\* file keys and endpoints
prices_csv == <<"p","r","i","c","e","s",".","c","s","v">>
items_json == <<"i","t","e","m","s",".","j","s","o","n">>
export_CSV == <<"e","x","p","o","r","t",".","C","S","V">>
notes_txt == <<"n","o","t","e","s",".","t","x","t">>
url_items == <<"h","t","t","p","s",":","/","/","a","p","i",".","e","x","a","m","p","l","e","/","i","t","e","m","s">>
url_users == <<"h","t","t","p","s",":","/","/","a","p","i",".","e","x","a","m","p","l","e","/","u","s","e","r","s">>
dot_json == <<".","j","s","o","n">>
dot_csv == <<".","c","s","v">>
EmptyString == <<>>

ExampleNames == {userID, FirstName, orderDate, user_id}

(***************************************************************************)
(* The database session held by DatabaseConnector.  A statement fails when *)
(* the connection is lost ("conn", after which every later call on the     *)
(* connection fails too, rollback included), when the server rejects it    *)
(* ("sql", which leaves the transaction aborted until a rollback) or when  *)
(* the transaction is already aborted.                                     *)
(***************************************************************************)
NoFault == [step |-> -1, kind |-> "none"]

FaultAt(fault, step) == IF fault.step = step THEN fault.kind ELSE "none"

\* an optional argument: <<>> is None, <<v>> is the value v
None == <<>>
IsNone(x) == x = <<>>
\* truth value of an optional string argument: None and '' are false
Truthy(x) == x # <<>> /\ x[1] # <<>>

\* DatabaseConnector.get_connection: self.connection after the call, "none"
\* when the call returns None
get_connection(conn, connOK) ==
    IF conn = "none" THEN (IF connOK THEN "open" ELSE "none") ELSE conn

\* DatabaseConnector.get_engine: self.engine after the call, "none" when the
\* call returns None
get_engine(eng, engineOK) ==
    IF eng = "none" THEN (IF engineOK THEN "created" ELSE "none") ELSE eng

\* cursor.execute of one statement on the psycopg2 connection
Execute(conn, tx, kind, valid) ==
    IF conn \in {"broken", "closed"} \/ kind = "conn"
    THEN [conn |-> IF conn = "closed" THEN conn ELSE "broken", txn |-> "idle", ok |-> FALSE]
    ELSE IF tx = "aborted" \/ kind = "sql" \/ ~valid
         THEN [conn |-> conn, txn |-> "aborted", ok |-> FALSE]
         ELSE [conn |-> conn, txn |-> "intrans", ok |-> TRUE]

\* mutant of Commit: the statements stay pending, as when the commit is left
\* to a transaction that spans the later steps
CommitDeferred(conn, tx, kind) ==
    IF conn \in {"broken", "closed"} \/ kind = "conn"
    THEN [conn |-> IF conn = "closed" THEN conn ELSE "broken", txn |-> "idle",
          ok |-> FALSE, durable |-> FALSE]
    ELSE IF kind = "sql"
         THEN [conn |-> conn, txn |-> "idle", ok |-> FALSE, durable |-> FALSE]
         ELSE [conn |-> conn, txn |-> tx, ok |-> TRUE, durable |-> FALSE]

\* connection.commit(): durable says whether the pending statements are
\* persisted; a COMMIT of an aborted transaction succeeds and persists nothing
Commit(conn, tx, kind) ==
    IF conn \in {"broken", "closed"} \/ kind = "conn"
    THEN [conn |-> IF conn = "closed" THEN conn ELSE "broken", txn |-> "idle",
          ok |-> FALSE, durable |-> FALSE]
    ELSE IF kind = "sql"
         THEN [conn |-> conn, txn |-> "idle", ok |-> FALSE, durable |-> FALSE]
         ELSE [conn |-> conn, txn |-> "idle", ok |-> TRUE, durable |-> tx # "aborted"]

\* connection.rollback()
Rollback(conn, tx) ==
    IF conn \in {"broken", "closed"}
    THEN [conn |-> conn, txn |-> "idle", ok |-> FALSE]
    ELSE [conn |-> conn, txn |-> "idle", ok |-> TRUE]

\* a table exists when the catalog lists columns for it
TableExists(cat, table_name) == cat[table_name] # {}

\* JSONExtractor.get_table_columns and CSVExtractor.get_table_columns
GetTableColumns(conn, tx, cat, table_name, connOK, kind) ==
    LET c == get_connection(conn, connOK)
    IN  IF c = "none"
        THEN [conn |-> c, txn |-> tx, cols |-> {}, failed |-> TRUE]
        ELSE LET e == Execute(c, tx, kind, TRUE)
             IN  [conn |-> e.conn, txn |-> e.txn,
                  cols |-> IF e.ok THEN cat[table_name] ELSE {},
                  failed |-> ~e.ok]

(***************************************************************************)
(* JSONExtractor.load_to_landing                                           *)
(***************************************************************************)
\* mutant of InsertColumns: file_name is added whenever it is supplied
InsertColumnsUnchecked(table_columns, fname, endpoint, status) ==
    <<raw_data>>
        \o (IF loaded_at \in table_columns THEN <<loaded_at>> ELSE <<>>)
        \o (IF Truthy(fname) THEN <<file_name>> ELSE <<>>)
        \o (IF api_endpoint \in table_columns /\ Truthy(endpoint) THEN <<api_endpoint>> ELSE <<>>)
        \o (IF request_timestamp \in table_columns THEN <<request_timestamp>> ELSE <<>>)
        \o (IF response_status \in table_columns /\ ~IsNone(status) THEN <<response_status>> ELSE <<>>)

\* mutant of InsertColumns: request_timestamp is added only when a source
\* identifier is supplied
InsertColumnsTimestampIfSource(table_columns, fname, endpoint, status) ==
    <<raw_data>>
        \o (IF loaded_at \in table_columns THEN <<loaded_at>> ELSE <<>>)
        \o (IF file_name \in table_columns /\ Truthy(fname) THEN <<file_name>> ELSE <<>>)
        \o (IF api_endpoint \in table_columns /\ Truthy(endpoint) THEN <<api_endpoint>> ELSE <<>>)
        \o (IF request_timestamp \in table_columns /\ Truthy(fname)
            THEN <<request_timestamp>> ELSE <<>>)
        \o (IF response_status \in table_columns /\ ~IsNone(status) THEN <<response_status>> ELSE <<>>)

\* the column list of the insert statement, lines 36-57
InsertColumns(table_columns, fname, endpoint, status) ==
    <<raw_data>>
        \o (IF loaded_at \in table_columns THEN <<loaded_at>> ELSE <<>>)
        \o (IF file_name \in table_columns /\ Truthy(fname) THEN <<file_name>> ELSE <<>>)
        \o (IF api_endpoint \in table_columns /\ Truthy(endpoint) THEN <<api_endpoint>> ELSE <<>>)
        \o (IF request_timestamp \in table_columns THEN <<request_timestamp>> ELSE <<>>)
        \o (IF response_status \in table_columns /\ ~IsNone(status) THEN <<response_status>> ELSE <<>>)

Range(q) == {q[i] : i \in 1..Len(q)}

\* the value of loaded_at for record i, line 73: datetime.now() is called
\* again for every record; times[1] is the read of line 67
LoadedAtValue(times, i) == times[1 + i]

\* the values of one insert, lines 70-85, as a row keyed by column name
Values(columns, json_obj, fname, endpoint, status, times, i) ==
    [c \in Range(columns) |->
        IF c = raw_data THEN json_obj
        ELSE IF c = loaded_at THEN LoadedAtValue(times, i)
        ELSE IF c = file_name THEN fname[1]
        ELSE IF c = api_endpoint THEN endpoint[1]
        ELSE IF c = request_timestamp THEN times[1]
        ELSE status[1]]

RECURSIVE InsertRows(_, _, _, _, _)
\* the loop of lines 69-88; st.pending are the rows inserted in the open
\* transaction, st.ok is FALSE once an execute has raised
InsertRows(st, rows, i, fault, valid) ==
    IF i > Len(rows) \/ ~st.ok THEN st
    ELSE LET e == Execute(st.conn, st.txn, FaultAt(fault, i), valid)
         IN  InsertRows([conn |-> e.conn, txn |-> e.txn, ok |-> e.ok,
                         pending |-> IF e.ok THEN Append(st.pending, rows[i])
                                     ELSE st.pending,
                         executed |-> st.executed + 1],
                        rows, i + 1, fault, valid)

\* mutant of Persisted: every inserted row is persisted at once, as with a
\* commit after each insert
PersistedPerRow(before, pending, durable) == before \o pending

\* the rows of the table once the transaction has ended
Persisted(before, pending, durable) ==
    IF durable THEN before \o pending ELSE before

\* isinstance(json_data, list), lines 25-26
AsList(json_data) ==
    IF json_data.isList THEN json_data.items ELSE <<json_data.item>>

\* mutant of RollbackCalls: the handler rolls back without testing connection
RollbackCallsUnguarded(acquired, committed) == IF committed THEN 0 ELSE 1

\* the calls of connection.rollback(), lines 97-100: one in the handler,
\* and only when connection is not None
RollbackCalls(acquired, committed) == IF ~committed /\ acquired THEN 1 ELSE 0

\* lines 91-101: the return after the commit, or the handler's rollback; ret
\* is "raise" when the rollback of the handler raises
JsonLoadReturn(db, table_name, env, g, columns, rows, st, cm) ==
    LET committed == st.ok /\ cm.ok
        rb == IF st.ok THEN Rollback(cm.conn, cm.txn) ELSE Rollback(st.conn, st.txn)
        durable == committed /\ cm.durable
        before == db.tables[table_name]
    IN  [db |-> [connection |-> IF committed THEN cm.conn ELSE rb.conn,
                 engine |-> db.engine,
                 txn |-> IF committed THEN cm.txn ELSE rb.txn,
                 tables |-> [db.tables EXCEPT
                               ![table_name] = Persisted(before, st.pending, durable)],
                 clock |-> env.times[Len(env.times)]],
         ret |-> IF committed THEN "true" ELSE IF rb.ok THEN "false" ELSE "raise",
         table_columns |-> g.cols,
         columns |-> columns,
         written |-> rows,
         executed |-> st.executed,
         connFailed |-> FALSE,
         catalogFailed |-> g.failed,
         insertFailed |-> ~st.ok,
         commits |-> IF st.ok THEN 1 ELSE 0,
         rollbacks |-> RollbackCalls(TRUE, committed)]

\* line 91: connection.commit() once the loop has ended; st is the state the
\* loop has left
JsonLoadCommit(db, table_name, env, n, g, columns, rows, st) ==
    JsonLoadReturn(db, table_name, env, g, columns, rows, st,
                   Commit(st.conn, st.txn, FaultAt(env.fault, n + 1)))

\* lines 59-88: the statement is built and executed once per record
JsonLoadInserts(db, cat, recs, table_name, fname, endpoint, status, env, g, columns) ==
    LET n == Len(recs)
        rows == [i \in 1..n |->
                    Values(columns, recs[i], fname, endpoint, status, env.times, i)]
        valid == TableExists(cat, table_name) /\ Range(columns) \subseteq cat[table_name]
    IN  JsonLoadCommit(db, table_name, env, n, g, columns, rows,
                       InsertRows([conn |-> g.conn, txn |-> g.txn, ok |-> TRUE,
                                   pending |-> <<>>, executed |-> 0],
                                  rows, 1, env.fault, valid))

\* lines 36-57: g is what get_table_columns returned and left
JsonLoadColumns(db, cat, recs, table_name, fname, endpoint, status, env, g) ==
    JsonLoadInserts(db, cat, recs, table_name, fname, endpoint, status, env, g,
                    InsertColumns(g.cols, fname, endpoint, status))

\* JSONExtractor.load_to_landing: db is the state before the call, env the
\* outcomes of the environment; ret is "true", "false" or "raise"
JsonLoad(db, cat, json_data, table_name, fname, endpoint, status, env) ==
    IF get_connection(db.connection, env.connOK) = "none"
    THEN \* connection.cursor() raises on None; the handler skips rollback
         [db |-> db, ret |-> "false", table_columns |-> {}, columns |-> <<>>,
          written |-> <<>>, executed |-> 0, connFailed |-> TRUE,
          catalogFailed |-> FALSE, insertFailed |-> FALSE,
          commits |-> 0, rollbacks |-> RollbackCalls(FALSE, FALSE)]
    ELSE JsonLoadColumns(db, cat, AsList(json_data), table_name, fname, endpoint,
                         status, env,
                         GetTableColumns(get_connection(db.connection, env.connOK),
                                         db.txn, cat, table_name, TRUE,
                                         FaultAt(env.fault, 0)))

(***************************************************************************)
(* CSVExtractor.load_to_landing                                            *)
(***************************************************************************)
\* the cell of row r in the k-th source column of a DataFrame
Cell(r, k) == 10 * r + k

IndexOf(q, c) == CHOOSE i \in 1..Len(q) : q[i] = c

\* df.to_dict('records'), line 44: one mapping from column name to cell per row
Records(df) ==
    [r \in 1..df.n |-> [c \in Range(df.cols) |-> Cell(r, IndexOf(df.cols, c))]]

\* lines 54-61: the columns of df after normalization and the metadata fields
StructuredColumns(df, table_columns, sfile) ==
    LET norm == [i \in 1..Len(df.cols) |-> camel_to_snake(df.cols[i])]
        withLoaded == IF loaded_at \in table_columns /\ loaded_at \notin Range(norm)
                      THEN Append(norm, loaded_at) ELSE norm
    IN  IF source_file \in table_columns /\ Truthy(sfile)
           /\ source_file \notin Range(withLoaded)
        THEN Append(withLoaded, source_file) ELSE withLoaded

\* mutant of MatchingColumns: every column of df is kept
MatchingColumnsAll(columns, table_columns) == columns

\* line 64: the columns kept for the append, in the order of df.columns
MatchingColumns(columns, table_columns) ==
    SelectSeq(columns, LAMBDA c : c \in table_columns)

\* the rows of df_filtered, lines 54-65
FilteredRows(df, table_columns, sfile, now) ==
    LET norm == [i \in 1..Len(df.cols) |-> camel_to_snake(df.cols[i])]
        matching == MatchingColumns(StructuredColumns(df, table_columns, sfile), table_columns)
    IN  [r \in 1..df.n |->
            [c \in Range(matching) |->
                IF c = loaded_at THEN now
                ELSE IF c = source_file /\ Truthy(sfile) THEN sfile[1]
                ELSE Cell(r, IndexOf(norm, c))]]

\* mutant of TruncateFirst: the TRUNCATE is skipped for an empty frame
TruncateUnlessEmpty(before, rows) == IF rows = <<>> THEN before ELSE <<>>

\* mutant of TruncateFirst: the rows already in the table are kept
TruncateNothing(before, rows) == before

\* the rows left by TRUNCATE TABLE once committed, lines 77-78
TruncateFirst(before, rows) == <<>>

\* the outcome of the structured branch: eng and c are what get_engine and
\* get_connection left, e and cm the outcomes of the TRUNCATE and its commit
StructuredReturn(db, g, table_name, env, rows, eng, c, e, cm) ==
    LET before == db.tables[table_name]
        step == IF eng = "none" THEN "engine"
                ELSE IF c = "none" THEN "connection"
                ELSE IF ~e.ok THEN "truncate"
                ELSE IF ~cm.ok THEN "commit"
                ELSE IF FaultAt(env.fault, 3) # "none" THEN "append"
                ELSE "done"
        truncated == step \in {"append", "done"} /\ cm.durable
    IN  [db |-> [connection |-> IF step = "engine" THEN g.conn
                                ELSE IF step \in {"connection", "truncate"} THEN e.conn
                                ELSE cm.conn,
                 engine |-> eng,
                 txn |-> IF step \in {"engine", "connection"} THEN g.txn
                         ELSE IF step = "truncate" THEN e.txn
                         ELSE cm.txn,
                 tables |-> [db.tables EXCEPT ![table_name] =
                                IF step = "done" THEN TruncateFirst(before, rows) \o rows
                                ELSE IF truncated THEN TruncateFirst(before, rows)
                                ELSE before],
                 clock |-> env.times[1]],
         ret |-> IF step = "done" THEN "true" ELSE "false",
         mode |-> "structured",
         table_columns |-> g.cols,
         normalized |-> TRUE,
         truncated |-> truncated,
         appended |-> step = "done",
         written |-> IF step = "done" THEN rows ELSE <<>>,
         failedAt |-> step,
         delegate_columns |-> {},
         delegate_failed |-> FALSE]

\* line 78: conn.commit() after the TRUNCATE
StructuredCommit(db, g, table_name, env, rows, eng, c, e) ==
    StructuredReturn(db, g, table_name, env, rows, eng, c, e,
                     Commit(e.conn, e.txn, FaultAt(env.fault, 2)))

\* lines 75-77: TRUNCATE TABLE on the psycopg2 connection
StructuredTruncate(db, cat, g, table_name, env, rows, eng, c) ==
    StructuredCommit(db, g, table_name, env, rows, eng, c,
                     Execute(c, g.txn, FaultAt(env.fault, 1), TableExists(cat, table_name)))

\* the structured branch, lines 52-96
StructuredLoad(db, cat, g, df, table_name, sfile, env) ==
    StructuredTruncate(db, cat, g, table_name, env,
                       FilteredRows(df, g.cols, sfile, env.times[1]),
                       get_engine(db.engine, env.engineOK),
                       get_connection(g.conn, env.connOK))

\* file_name=source_file of the delegated call, line 49
DelegatedSource(sfile) == sfile

\* lines 42-49: the result of the delegated call j is the result of the call;
\* an exception of the delegated call is caught at line 105
DelegatedReturn(g, j) ==
    [db |-> j.db,
     ret |-> IF j.ret = "true" THEN "true" ELSE "false",
     mode |-> "document",
     table_columns |-> g.cols,
     normalized |-> FALSE,
     truncated |-> FALSE,
     appended |-> FALSE,
     written |-> IF j.ret = "true" THEN j.written ELSE <<>>,
     failedAt |-> IF j.ret = "true" THEN "done" ELSE "delegate",
     \* what get_table_columns returned to the delegated call
     delegate_columns |-> j.table_columns,
     delegate_failed |-> j.connFailed \/ j.catalogFailed]

\* mutant of DocumentMode: the structured branch is always taken
DocumentModeNever(table_columns) == FALSE

\* line 42: 'raw_data' in table_columns
DocumentMode(table_columns) == raw_data \in table_columns

\* line 42: the branch on raw_data; g is what get_table_columns returned
CsvLoadBranch(db, cat, df, table_name, sfile, env, g) ==
    IF DocumentMode(g.cols)
    THEN DelegatedReturn(g,
             JsonLoad([db EXCEPT !.connection = g.conn, !.txn = g.txn], cat,
                      [isList |-> TRUE, items |-> Records(df)], table_name,
                      DelegatedSource(sfile), None, None,
                      [connOK |-> env.connOK, fault |-> env.fault,
                       times |-> env.times]))
    ELSE StructuredLoad(db, cat, g, df, table_name, sfile, env)

\* CSVExtractor.load_to_landing
CsvLoad(db, cat, df, table_name, sfile, env) ==
    CsvLoadBranch(db, cat, df, table_name, sfile, env,
                  GetTableColumns(db.connection, db.txn, cat, table_name, env.connOK,
                                  FaultAt(env.fault, -2)))

(***************************************************************************)
(* DatabaseConnector.truncate_table                                        *)
(***************************************************************************)
\* lines 111-123: c is what get_connection returned, e and cm the outcomes of
\* the TRUNCATE and of its commit, rb that of the rollback of the handler
TruncateTableReturn(db, table_name, c, e, cm, rb) ==
    LET committed == e.ok /\ cm.ok IN
    [db |-> [db EXCEPT
               !.connection = IF committed THEN cm.conn ELSE rb.conn,
               !.txn = IF committed THEN cm.txn ELSE rb.txn,
               !.tables = IF committed /\ cm.durable
                          THEN [db.tables EXCEPT ![table_name] = <<>>]
                          ELSE db.tables],
     ret |-> IF committed THEN "true" ELSE IF rb.ok THEN "false" ELSE "raise",
     failedAt |-> IF ~e.ok THEN "truncate" ELSE IF ~cm.ok THEN "commit" ELSE "done"]

\* lines 113-122: the commit, and the rollback of the handler
TruncateTableCommit(db, table_name, env, c, e, cm) ==
    TruncateTableReturn(db, table_name, c, e, cm,
                        IF e.ok THEN Rollback(cm.conn, cm.txn) ELSE Rollback(e.conn, e.txn))

\* lines 111-113
TruncateTableExecute(db, table_name, env, c, e) ==
    TruncateTableCommit(db, table_name, env, c, e,
                        Commit(e.conn, e.txn, FaultAt(env.fault, 2)))

\* DatabaseConnector.truncate_table
truncate_table(db, cat, table_name, env) ==
    IF get_connection(db.connection, env.connOK) = "none"
    THEN [db |-> db, ret |-> "false", failedAt |-> "connection"]
    ELSE TruncateTableExecute(db, table_name, env,
             get_connection(db.connection, env.connOK),
             Execute(get_connection(db.connection, env.connOK), db.txn,
                     FaultAt(env.fault, 1), TableExists(cat, table_name)))

NoRun == [pc |-> "none"]


(***************************************************************************)
(* The loaders called on one shared DatabaseConnector.  A behaviour is a   *)
(* history of at most MaxHistory loader calls followed by one call whose   *)
(* arguments, environment and results are recorded in last.                *)
(***************************************************************************)
TableNames == {"lnd_items", "lnd_prices"}

MetaColumns == {loaded_at, file_name, api_endpoint, request_timestamp, response_status}

\* column sets of the document table and of the structured table
DocCatalogs == {{raw_data, loaded_at, file_name, request_timestamp}}
AllDocCatalogs == {{raw_data} \cup m : m \in SUBSET MetaColumns}
StructCatalogs == {{col_id, price, loaded_at, source_file}}

\* the input tables: column names and number of rows
Frames == [cols : {<<Id, Price>>}, n : 0..MaxBatch]

\* json_data: a list of objects or one object that is not a list
JsonInputs ==
    {[isList |-> TRUE, items |-> Records(f)] : f \in Frames}
        \cup {[isList |-> FALSE, item |-> Records([cols |-> <<Id, Price>>, n |-> 1])[1]]}

FileNames == {None, <<EmptyString>>, <<prices_csv>>}
Endpoints == {None, <<EmptyString>>, <<url_items>>}
Statuses == {None, <<0>>, <<200>>}

\* the arguments of a direct call, of PublicS3Extractor and of APIExtractor
ArgProfiles ==
    {[fname |-> None, endpoint |-> None, status |-> None],
     [fname |-> <<prices_csv>>, endpoint |-> None, status |-> None],
     [fname |-> <<url_items>>, endpoint |-> <<url_items>>, status |-> <<200>>]}
AllArgs == [fname : FileNames, endpoint : Endpoints, status : Statuses]

FaultKinds == {"sql", "conn"}
Faults(steps) == {NoFault} \cup [step : steps, kind : FaultKinds]

\* the values k successive calls of datetime.now() return
Times(k) ==
    {q \in [1..k -> clock..MaxClock] : \A i \in 1..(k - 1) : q[i] <= q[i + 1]}

\* psycopg2.connect and create_engine can fail only when they are called
ConnectOutcomes == IF connection = "none" THEN BOOLEAN ELSE {TRUE}
EngineOutcomes == IF engine = "none" THEN BOOLEAN ELSE {TRUE}

Db == [connection |-> connection, engine |-> engine, txn |-> txn,
       tables |-> tables, clock |-> clock]

SetDb(db) ==
    /\ connection' = db.connection
    /\ engine' = db.engine
    /\ txn' = db.txn
    /\ tables' = db.tables
    /\ clock' = db.clock

\* reads of the clock nobody observes return the value read before
QuietClock(times, requestTimeRead, loadedAtRead) ==
    /\ ~requestTimeRead => times[1] = clock
    /\ ~loadedAtRead => \A i \in 2..Len(times) : times[i] = times[1]

NoLoad(k) == [op |-> "none", seq |-> k]

InitDb(docs, structs) ==
    /\ connection = "none"
    /\ engine = "none"
    /\ txn = "idle"
    /\ tables = [t \in TableNames |-> <<>>]
    /\ catalog \in {[t \in TableNames |-> IF t = "lnd_items" THEN d ELSE c] :
                       d \in docs, c \in structs}
    /\ clock = 0

IdleNorm ==
    /\ name = <<>>
    /\ out = <<>>
    /\ out2 = <<>>
    /\ npc = "input"

IdleDb ==
    /\ connection = "none"
    /\ engine = "none"
    /\ txn = "idle"
    /\ tables = [t \in TableNames |-> <<>>]
    /\ catalog = [t \in TableNames |-> {}]
    /\ clock = 0
    /\ last = NoLoad(0)
    /\ orch = NoRun

Init ==
    /\ IdleNorm
    /\ InitDb(DocCatalogs, StructCatalogs)
    /\ last = NoLoad(0)
    /\ orch = NoRun

\* the effect of one call of JSONExtractor.load_to_landing whose result is r
JsonCallEffect(observed, table_name, json_data, args, env, r) ==
    /\ r.connFailed => (env.fault = NoFault /\ QuietClock(env.times, FALSE, FALSE))
    /\ ~r.connFailed => QuietClock(env.times, request_timestamp \in r.table_columns,
                                   loaded_at \in r.table_columns)
    /\ SetDb(r.db)
    /\ last' = IF ~observed THEN NoLoad(last.seq + 1)
               ELSE [op |-> "json", table |-> table_name,
                     json_data |-> json_data, n |-> Len(AsList(json_data)),
                     args |-> args, env |-> env, pre |-> Db, ret |-> r.ret,
                     table_columns |-> r.table_columns,
                     columns |-> r.columns,
                     written |-> r.written, executed |-> r.executed,
                     connFailed |-> r.connFailed,
                     catalogFailed |-> r.catalogFailed,
                     insertFailed |-> r.insertFailed,
                     commits |-> r.commits, rollbacks |-> r.rollbacks]
    /\ UNCHANGED <<normVars, catalog, orch>>

\* one call of JSONExtractor.load_to_landing in the environment env
JsonCallIn(observed, table_name, json_data, args, env) ==
    JsonCallEffect(observed, table_name, json_data, args, env,
                   JsonLoad(Db, catalog, json_data, table_name,
                            args.fname, args.endpoint, args.status, env))

\* one call of JSONExtractor.load_to_landing with arguments drawn from argSet
JsonCall(observed, argSet) ==
    /\ last.op = "none"
    /\ observed \/ last.seq < MaxHistory
    /\ \E table_name \in TableNames, json_data \in JsonInputs, args \in argSet,
          connOK \in ConnectOutcomes :
         \E fault \in Faults(0..(Len(AsList(json_data)) + 1)),
            times \in Times(Len(AsList(json_data)) + 1) :
           JsonCallIn(observed, table_name, json_data, args,
                      [connOK |-> connOK, fault |-> fault, times |-> times])

\* the effect of one call of CSVExtractor.load_to_landing whose result is r
CsvCallEffect(observed, table_name, df, sfile, env, r) ==
    /\ r.mode = "document" =>
           /\ env.engineOK
           /\ QuietClock(env.times, request_timestamp \in r.table_columns,
                         loaded_at \in r.table_columns)
    /\ r.mode = "structured" =>
           /\ QuietClock(env.times, loaded_at \in r.table_columns, FALSE)
           /\ env.fault.step \in {-1, -2, 1, 2, 3}
           /\ env.fault.step = 3 => env.fault.kind = "sql"
    /\ SetDb(r.db)
    /\ last' = IF ~observed THEN NoLoad(last.seq + 1)
               ELSE [op |-> "csv", table |-> table_name, df |-> df,
                     n |-> df.n, sfile |-> sfile, env |-> env, pre |-> Db,
                     ret |-> r.ret, mode |-> r.mode,
                     table_columns |-> r.table_columns,
                     normalized |-> r.normalized,
                     truncated |-> r.truncated,
                     appended |-> r.appended, written |-> r.written,
                     failedAt |-> r.failedAt]
    /\ UNCHANGED <<normVars, catalog, orch>>

\* one call of CSVExtractor.load_to_landing in the environment env
CsvCallIn(observed, table_name, df, sfile, env) ==
    CsvCallEffect(observed, table_name, df, sfile, env,
                  CsvLoad(Db, catalog, df, table_name, sfile, env))

\* one call of CSVExtractor.load_to_landing with source_file drawn from
\* fileSet and df from frameSet; step -2 is the catalog query of line 39, steps 0.. are those of
\* the delegated call (document mode) or 1 TRUNCATE, 2 commit, 3 to_sql
\* (structured mode)
CsvCall(observed, fileSet, frameSet) ==
    /\ last.op = "none"
    /\ observed \/ last.seq < MaxHistory
    /\ \E table_name \in TableNames, df \in frameSet, sfile \in fileSet,
          connOK \in ConnectOutcomes, engineOK \in EngineOutcomes :
         \E fault \in Faults({-2} \cup 0..(df.n + 1)), times \in Times(df.n + 1) :
           CsvCallIn(observed, table_name, df, sfile,
                     [connOK |-> connOK, engineOK |-> engineOK,
                      fault |-> fault, times |-> times])

\* the effect of one call of DatabaseConnector.truncate_table that returned r
TruncateCallEffect(table_name, env, r) ==
    /\ r.failedAt = "connection" => env.fault = NoFault
    /\ SetDb(r.db)
    /\ last' = [op |-> "truncate", table |-> table_name, env |-> env, pre |-> Db,
                ret |-> r.ret, failedAt |-> r.failedAt]
    /\ UNCHANGED <<normVars, catalog, orch>>

\* one recorded call of DatabaseConnector.truncate_table; step 1 is the
\* TRUNCATE, step 2 its commit
TruncateCall ==
    /\ last.op = "none"
    /\ \E table_name \in TableNames, connOK \in ConnectOutcomes, fault \in Faults(1..2) :
         TruncateCallEffect(table_name, [connOK |-> connOK, fault |-> fault],
                            truncate_table(Db, catalog, table_name,
                                           [connOK |-> connOK, fault |-> fault]))

\* the calls of the history, which leave rows and a session state behind
HistoryArgs == {[fname |-> <<prices_csv>>, endpoint |-> None, status |-> None]}
HistoryFiles == {<<prices_csv>>}
PastJSONLoad == JsonCall(FALSE, HistoryArgs)
PastCSVLoad == CsvCall(FALSE, HistoryFiles, Frames)
\* the recorded call
JSONLoad == JsonCall(TRUE, ArgProfiles)
CSVLoad == CsvCall(TRUE, FileNames, Frames)

Next == PastJSONLoad \/ PastCSVLoad \/ JSONLoad \/ CSVLoad \/ TruncateCall

Spec == Init /\ [][Next]_vars


\* the same call on every column set of the document table and with every
\* combination of arguments
ColsInit ==
    /\ IdleNorm
    /\ InitDb(AllDocCatalogs, StructCatalogs)
    /\ last = NoLoad(0)
    /\ orch = NoRun

JSONLoadAnyArgs == JsonCall(TRUE, AllArgs)

ColsNext == JSONLoadAnyArgs

SpecCols == ColsInit /\ [][ColsNext]_vars

\* structured loads of frames with a column the destination lacks into
\* destinations with columns the frame lacks
WideFrames == [cols : {<<Id, Price>>, <<Id, FirstName, Price>>}, n : 0..MaxBatch]
WideStructCatalogs == {{col_id, price, loaded_at}, {col_id, price, loaded_at, source_file},
                       {col_id, order_date, source_file}}

StructInit ==
    /\ IdleNorm
    /\ InitDb(DocCatalogs, WideStructCatalogs)
    /\ last = NoLoad(0)
    /\ orch = NoRun

CSVLoadWide == CsvCall(TRUE, FileNames, WideFrames)

\* an earlier call of CSVExtractor.load_to_landing with a table of one row
EarlierCSVLoad == CsvCall(FALSE, HistoryFiles, {[cols |-> <<Id, Price>>, n |-> 1]})

StructNext == EarlierCSVLoad \/ CSVLoadWide

SpecStruct == StructInit /\ [][StructNext]_vars

(***************************************************************************)
(* Tabular Loader calls interleaved with changes of the catalog made by    *)
(* other clients of the database, between calls and between the catalog    *)
(* query of line 39 and the rest of the call.                              *)
(***************************************************************************)
ModeCatalogs == {{raw_data, loaded_at, file_name, request_timestamp},
                 {col_id, price, loaded_at, source_file}}

\* another client alters a destination table between two calls
AlterCatalog ==
    /\ last.op = "none"
    /\ \E t \in TableNames, c \in ModeCatalogs :
          /\ c # catalog[t]
          /\ catalog' = [catalog EXCEPT ![t] = c]
    /\ UNCHANGED <<normVars, connection, engine, txn, tables, clock, last, orch>>

\* the effect of a call whose line 39 returned g and whose later steps, with
\* result r, ran against the catalog cat2
CsvRacingEffect(table_name, df, sfile, env, cat2, g, r) ==
    /\ r.mode = "document" =>
           /\ env.engineOK
           /\ QuietClock(env.times, request_timestamp \in r.delegate_columns,
                         loaded_at \in r.delegate_columns)
    /\ r.mode = "structured" =>
           /\ QuietClock(env.times, loaded_at \in r.table_columns, FALSE)
           /\ env.fault.step \in {-1, -2, 1, 2, 3}
           /\ env.fault.step = 3 => env.fault.kind = "sql"
    /\ SetDb(r.db)
    /\ catalog' = cat2
    /\ last' = [op |-> "csv", table |-> table_name, df |-> df,
                n |-> df.n, sfile |-> sfile, env |-> env, pre |-> Db,
                ret |-> r.ret, mode |-> r.mode,
                table_columns |-> r.table_columns,
                normalized |-> r.normalized,
                truncated |-> r.truncated,
                appended |-> r.appended, written |-> r.written,
                failedAt |-> r.failedAt,
                catalog_before |-> catalog[table_name],
                first_failed |-> g.failed,
                delegate_columns |-> r.delegate_columns,
                delegate_failed |-> r.delegate_failed]
    /\ UNCHANGED <<normVars, orch>>

\* lines 42-107 of a call whose line 39 returned g
CsvRacingBranch(table_name, df, sfile, env, cat2, g) ==
    CsvRacingEffect(table_name, df, sfile, env, cat2, g,
                    CsvLoadBranch(Db, cat2, df, table_name, sfile, env, g))

\* one recorded call of CSVExtractor.load_to_landing during which the
\* destination may be altered right after the catalog query of line 39
CSVLoadRacing ==
    /\ last.op = "none"
    /\ \E table_name \in TableNames, df \in Frames, sfile \in HistoryFiles,
          connOK \in ConnectOutcomes, engineOK \in EngineOutcomes, c2 \in ModeCatalogs :
         \E fault \in Faults({-2} \cup 0..(df.n + 1)), times \in Times(df.n + 1) :
           CsvRacingBranch(table_name, df, sfile,
                           [connOK |-> connOK, engineOK |-> engineOK,
                            fault |-> fault, times |-> times],
                           [catalog EXCEPT ![table_name] = c2],
                           GetTableColumns(connection, txn, catalog, table_name, connOK,
                                           FaultAt(fault, -2)))

ModeInit ==
    /\ IdleNorm
    /\ InitDb(ModeCatalogs, ModeCatalogs)
    /\ last = NoLoad(0)
    /\ orch = NoRun

ModeNext == AlterCatalog \/ EarlierCSVLoad \/ CSVLoadRacing

SpecMode == ModeInit /\ [][ModeNext]_vars

\* the connection was usable before the call and no step of the call failed
Healthy(pre) == pre.connection \notin {"broken", "closed"} /\ pre.txn # "aborted"
FaultFree(env) == env.connOK /\ env.fault = NoFault

\* C1: when a Document Loader call with N records ends, the table has gained
\* all N records and the call returned true, or it has gained none and the
\* call did not return true; no failing insert or commit leaves a part.
C1_BatchAtomic ==
    last.op = "json" =>
        LET before == last.pre.tables[last.table]
            now == tables[last.table]
        IN  \/ last.ret = "true" /\ now = before \o last.written
            \/ last.ret # "true" /\ now = before

C1_Witness ==
    /\ last.op = "json"
    /\ last.n = 2
    /\ last.executed = 2
    /\ last.insertFailed
    /\ last.ret = "false"
    /\ last.pre.tables[last.table] # <<>>
    /\ tables[last.table] = last.pre.tables[last.table]

\* C2: a Document Loader call in which the connection cannot be acquired, the
\* catalog query fails or an insert fails returns false and raises nothing.
C2_FailureReturnsFalse ==
    (last.op = "json" /\ (last.connFailed \/ last.catalogFailed \/ last.insertFailed))
        => last.ret = "false"

\* the call the Tabular Loader is compared with: the Document Loader on the
\* rows of df as records, from the same state and in the same environment
DirectJsonLoad ==
    JsonLoad(last.pre, catalog, [isList |-> TRUE, items |-> Records(last.df)],
             last.table, last.sfile, None, None,
             [connOK |-> last.env.connOK, fault |-> last.env.fault,
              times |-> last.env.times])

\* C3: when the catalog returns raw_data for the destination, the Tabular
\* Loader returns what the Document Loader returns on the rows of df as
\* records and leaves the same table contents, and it neither normalizes,
\* truncates nor bulk-appends.
C3_DocumentModeEquivalent ==
    (last.op = "csv" /\ raw_data \in last.table_columns) =>
        /\ last.ret = DirectJsonLoad.ret
        /\ tables = DirectJsonLoad.db.tables
        /\ ~last.normalized /\ ~last.truncated /\ ~last.appended

\* C4 as claimed: a Tabular Loader call with zero rows truncates, leaves the
\* destination with zero rows and returns true, whatever the destination.
C4_EmptyInputTruncates ==
    (last.op = "csv" /\ last.n = 0 /\ Healthy(last.pre) /\ FaultFree(last.env)
        /\ last.env.engineOK)
        => /\ last.truncated
           /\ last.written = <<>>
           /\ tables[last.table] = <<>>
           /\ last.ret = "true"

\* C4 amended: with zero rows and no failing step, a destination that exists
\* and has no raw_data column is truncated, gets nothing appended, is left
\* with zero rows and the call returns true; a destination with a raw_data
\* column is not truncated, keeps its rows and the call returns true.
C4_EmptyInputByMode ==
    (last.op = "csv" /\ last.n = 0 /\ Healthy(last.pre) /\ FaultFree(last.env)
        /\ last.env.engineOK /\ TableExists(catalog, last.table))
        => IF raw_data \in catalog[last.table]
           THEN /\ ~last.truncated
                /\ tables[last.table] = last.pre.tables[last.table]
                /\ last.ret = "true"
           ELSE /\ last.truncated
                /\ last.written = <<>>
                /\ tables[last.table] = <<>>
                /\ last.ret = "true"

C4_Witness ==
    /\ last.op = "csv"
    /\ last.n = 0
    /\ last.mode = "structured"
    /\ last.pre.tables[last.table] # <<>>
    /\ last.truncated
    /\ tables[last.table] = <<>>
    /\ last.ret = "true"

\* C5: the rows one Document Loader call inserts carry the same loaded_at
\* value and the same request_timestamp value.
C5_SharedTimestamp ==
    (last.op = "json" /\ last.ret = "true") =>
        \A i, j \in 1..Len(last.written) :
            \A c \in {loaded_at, request_timestamp} \cap Range(last.columns) :
                last.written[i][c] = last.written[j][c]

\* C6: the insert statement names no metadata column that the catalog did
\* not return and no column the destination lacks other than raw_data, and a
\* call in which nothing fails returns true whatever metadata columns the
\* destination lacks.
C6_AbsentColumnsUnreferenced ==
    last.op = "json" =>
        /\ Range(last.columns) \cap MetaColumns \subseteq last.table_columns
        /\ Range(last.columns) \subseteq catalog[last.table] \cup {raw_data}
        /\ (raw_data \in catalog[last.table] /\ Healthy(last.pre) /\ FaultFree(last.env))
               => last.ret = "true"

C6_Witness ==
    /\ last.op = "json"
    /\ last.n = 2
    /\ catalog[last.table] = {raw_data, api_endpoint}
    /\ Truthy(last.args.fname) /\ Truthy(last.args.endpoint) /\ ~IsNone(last.args.status)
    /\ last.columns = <<raw_data, api_endpoint>>
    /\ last.ret = "true"
    /\ Len(tables[last.table]) = 2

\* C15 as claimed: the column list is raw_data, plus loaded_at, api_endpoint
\* and request_timestamp iff the destination declares them, plus file_name
\* and response_status iff the destination declares them and the argument was
\* supplied; rows of an API load carry the endpoint and the status.
C15_ColumnList ==
    (last.op = "json" /\ ~last.connFailed) =>
        LET declared == catalog[last.table] IN
        /\ Range(last.columns) =
              {raw_data}
                \cup ({loaded_at, api_endpoint, request_timestamp} \cap declared)
                \cup (IF ~IsNone(last.args.fname) THEN {file_name} \cap declared ELSE {})
                \cup (IF ~IsNone(last.args.status) THEN {response_status} \cap declared ELSE {})
        /\ Len(last.columns) = Cardinality(Range(last.columns))

\* C15 amended: the column list is raw_data, plus loaded_at and
\* request_timestamp iff the catalog query returned them, plus file_name iff
\* returned and file_name is non-empty, plus api_endpoint iff returned and
\* api_endpoint is non-empty, plus response_status iff returned and
\* response_status is not None; every row of the call carries the endpoint
\* and the status in those columns.
C15_ColumnListByArguments ==
    (last.op = "json" /\ ~last.connFailed) =>
        LET returned == last.table_columns IN
        /\ Range(last.columns) =
              {raw_data}
                \cup ({loaded_at, request_timestamp} \cap returned)
                \cup (IF Truthy(last.args.fname) THEN {file_name} \cap returned ELSE {})
                \cup (IF Truthy(last.args.endpoint) THEN {api_endpoint} \cap returned ELSE {})
                \cup (IF ~IsNone(last.args.status) THEN {response_status} \cap returned ELSE {})
        /\ Len(last.columns) = Cardinality(Range(last.columns))
        /\ ~last.catalogFailed => returned = catalog[last.table]
        /\ \A i \in 1..Len(last.written) :
              /\ DOMAIN last.written[i] = Range(last.columns)
              /\ api_endpoint \in Range(last.columns) =>
                     last.written[i][api_endpoint] = last.args.endpoint[1]
              /\ response_status \in Range(last.columns) =>
                     last.written[i][response_status] = last.args.status[1]
              /\ file_name \in Range(last.columns) =>
                     last.written[i][file_name] = last.args.fname[1]
        /\ last.ret = "true" =>
              tables[last.table] = last.pre.tables[last.table] \o last.written

C15_Witness ==
    /\ last.op = "json"
    /\ last.n = 2
    /\ last.ret = "true"
    /\ catalog[last.table] = {raw_data, loaded_at, api_endpoint, response_status}
    /\ last.args.endpoint = <<url_items>>
    /\ last.args.status = <<200>>
    /\ last.columns = <<raw_data, loaded_at, api_endpoint, response_status>>
    /\ \A i \in 1..2 : /\ tables[last.table][i][api_endpoint] = url_items
                        /\ tables[last.table][i][response_status] = 200

\* C16 as claimed: every Document Loader call issues exactly one commit,
\* after all rows were inserted, or exactly one rollback, never both and
\* never neither.
C16_OneCommitOrRollback ==
    last.op = "json" =>
        /\ \/ last.commits = 1 /\ last.rollbacks = 0
           \/ last.commits = 0 /\ last.rollbacks = 1
        /\ last.commits = 1 => last.executed = last.n

\* C16 amended: a call that gets no connection issues neither; any other
\* call issues one commit iff every insert succeeded, and one rollback iff
\* that commit was not issued or failed, so that it ends with exactly one
\* successful commit or exactly one rollback.
C16_CommitXorRollback ==
    last.op = "json" =>
        IF last.connFailed
        THEN last.commits = 0 /\ last.rollbacks = 0 /\ last.ret = "false"
        ELSE /\ last.commits \in {0, 1} /\ last.rollbacks \in {0, 1}
             /\ last.commits = 1 <=> ~last.insertFailed
             /\ last.commits = 1 => last.executed = last.n
             /\ last.rollbacks = 1 <=> last.ret # "true"
             /\ last.ret = "true" => (last.commits = 1 /\ last.rollbacks = 0)

C16_Witness ==
    /\ last.op = "json"
    /\ last.n = 2
    /\ last.executed = 2
    /\ ~last.insertFailed
    /\ last.commits = 1
    /\ last.rollbacks = 1
    /\ last.ret = "false"

\* C17: in structured mode the TRUNCATE is committed before the append
\* starts: when the append fails the call returns false and the destination
\* is left with zero rows; when the TRUNCATE fails nothing is appended and
\* the prior rows remain.
C17_TruncateThenAppend ==
    (last.op = "csv" /\ last.mode = "structured") =>
        /\ last.failedAt = "append" =>
              /\ last.ret = "false"
              /\ last.truncated
              /\ tables[last.table] = <<>>
        /\ last.failedAt = "truncate" =>
              /\ last.ret = "false"
              /\ ~last.appended /\ ~last.truncated
              /\ tables[last.table] = last.pre.tables[last.table]
        /\ last.appended => last.truncated

C17_Witness ==
    /\ last.op = "csv"
    /\ last.mode = "structured"
    /\ last.failedAt = "append"
    /\ last.n = 2
    /\ last.pre.tables[last.table] # <<>>
    /\ tables[last.table] = <<>>
    /\ last.ret = "false"

\* C18 as claimed: a Tabular Loader call runs in document mode iff raw_data
\* is in the column set the catalog returns during that call, whatever the
\* earlier calls saw, and the delegated Document Loader builds its insert
\* from that same column set.
C18_ModeRecomputed ==
    last.op = "csv" =>
        /\ last.mode = "document" <=> raw_data \in last.table_columns
        /\ ~last.first_failed => last.table_columns = last.catalog_before
        /\ last.mode = "document" => last.delegate_columns = last.table_columns

\* C18 amended: the mode follows the column set the catalog returns to the
\* Tabular Loader's own query; the delegated Document Loader queries the
\* catalog again and builds its insert from what that second query returns,
\* which is the same column set when the second query succeeds and the
\* destination was not altered between the two queries.
C18_ModeRecomputedTwoQueries ==
    last.op = "csv" =>
        /\ last.mode = "document" <=> raw_data \in last.table_columns
        /\ ~last.first_failed => last.table_columns = last.catalog_before
        /\ last.first_failed => (last.table_columns = {} /\ last.mode = "structured")
        /\ (last.mode = "document" /\ ~last.delegate_failed) =>
               last.delegate_columns = catalog[last.table]
        /\ (last.mode = "document" /\ ~last.delegate_failed
               /\ catalog[last.table] = last.catalog_before) =>
               last.delegate_columns = last.table_columns
        /\ (last.mode = "document" /\ last.delegate_failed) => last.delegate_columns = {}

C18_Witness ==
    /\ last.op = "csv"
    /\ last.mode = "document"
    /\ last.ret = "true"
    /\ last.n = 2
    /\ last.pre.tables[last.table] # <<>>
    /\ DOMAIN last.pre.tables[last.table][1] = {col_id, price, loaded_at, source_file}
    /\ last.catalog_before = catalog[last.table]
    /\ last.delegate_columns = last.table_columns

\* C8 as claimed: after a successful load the destination holds only the
\* rows written by that call.
C8_EveryLoadTruncates ==
    (last.op \in {"json", "csv"} /\ last.ret = "true")
        => tables[last.table] = last.written

\* C8 amended: after a successful structured-mode Tabular Loader call the
\* destination holds only the rows written by that call; after a successful
\* Document Loader call, direct or delegated, it holds its prior rows followed
\* by the rows written by that call.
C8_OnlyStructuredTruncates ==
    (last.op \in {"json", "csv"} /\ last.ret = "true") =>
        IF last.op = "csv" /\ last.mode = "structured"
        THEN tables[last.table] = last.written
        ELSE tables[last.table] = last.pre.tables[last.table] \o last.written

C8_Witness ==
    /\ last.op = "csv"
    /\ last.mode = "structured"
    /\ last.ret = "true"
    /\ last.n = 2
    /\ Len(last.pre.tables[last.table]) = 1
    /\ Len(tables[last.table]) = 2

\* the normalized names of the columns of df
NormalizedNames(df) == {camel_to_snake(df.cols[i]) : i \in 1..Len(df.cols)}

\* the source column of df whose normalized name is c
SourceIndex(df, c) == CHOOSE i \in 1..Len(df.cols) : camel_to_snake(df.cols[i]) = c

\* the rows of df restricted to the columns cols: same count, same order
InputRowsOn(df, cols, held) ==
    /\ Len(held) = df.n
    /\ \A r \in 1..df.n :
          /\ DOMAIN held[r] = cols
          /\ \A c \in (cols \cap NormalizedNames(df)) \ {loaded_at, source_file} :
                held[r][c] = Cell(r, SourceIndex(df, c))

\* a structured-mode call in which no step of the environment fails
StructuredNoFault ==
    /\ last.op = "csv" /\ TableExists(catalog, last.table)
    /\ raw_data \notin catalog[last.table]
    /\ Healthy(last.pre) /\ FaultFree(last.env) /\ last.env.engineOK

PersistenceFailed ==
    /\ last.op \in {"json", "csv", "truncate"}
    /\ last.ret = "false"
    /\ \/ last.op = "json" /\ (last.insertFailed \/ last.commits = 1)
       \/ last.op = "csv" /\ last.mode = "structured"
             /\ last.failedAt \in {"truncate", "commit"}
       \/ last.op = "truncate" /\ last.failedAt \in {"truncate", "commit"}

\* C13: when a loader call returns false because an insert, a TRUNCATE or a
\* commit failed, the shared connection is in no open and no aborted
\* transaction when the call returns.
C13_FailedLoadRolledBack ==
    PersistenceFailed => txn = "idle"

(***************************************************************************)
(* get_table_columns on qualified and unqualified names.  info is the      *)
(* content of information_schema.columns: the column names of every        *)
(* (table_schema, table_name); a pair with no rows has the empty set.      *)
(***************************************************************************)
SchemaChars == {"s", "t"}

RECURSIVE NamesOver(_, _)
NamesOver(chars, n) ==
    IF n = 0 THEN {<<>>}
    ELSE LET shorter == NamesOver(chars, n - 1)
         IN  shorter \cup {Append(q, c) : q \in {t \in shorter : Len(t) = n - 1}, c \in chars}

\* '.' in table_name
HasDot(table_name) == \E i \in 1..Len(table_name) : table_name[i] = "."

RECURSIVE BeforeDot(_)
\* table_name.split('.', 1)[0]
BeforeDot(q) == IF q = <<>> \/ Head(q) = "." THEN <<>> ELSE <<Head(q)>> \o BeforeDot(Tail(q))

RECURSIVE AfterDot(_)
\* table_name.split('.', 1)[1]
AfterDot(q) == IF q = <<>> THEN <<>> ELSE IF Head(q) = "." THEN Tail(q) ELSE AfterDot(Tail(q))

\* mutant of QueryColumns: a qualified name is filtered by its table alone
QueryColumnsAnySchema(info, table_name) ==
    IF HasDot(table_name)
    THEN UNION {info[k] : k \in {x \in DOMAIN info : x[2] = AfterDot(table_name)}}
    ELSE UNION {info[k] : k \in {x \in DOMAIN info : x[2] = table_name}}

\* the rows the catalog query returns, lines 112-132
QueryColumns(info, table_name) ==
    IF HasDot(table_name)
    THEN UNION {info[k] : k \in {x \in DOMAIN info :
                                     x[1] = BeforeDot(table_name) /\ x[2] = AfterDot(table_name)}}
    ELSE UNION {info[k] : k \in {x \in DOMAIN info : x[2] = table_name}}

\* get_table_columns of JSONExtractor and of CSVExtractor on the name
\* table_name: every exception of the body is caught and [] returned
get_table_columns(conn, tx, info, table_name, connOK, kind) ==
    GetTableColumns(conn, tx, [t \in {table_name} |-> QueryColumns(info, table_name)],
                    table_name, connOK, kind)

InfoKeys == {<<a, b>> : a \in {<<x>> : x \in SchemaChars}, b \in {<<x>> : x \in SchemaChars}}
\* every table is absent or has one column that no other table has
InfoColumn(k) ==
    IF k[1] = <<"s">> THEN (IF k[2] = <<"s">> THEN raw_data ELSE loaded_at)
    ELSE (IF k[2] = <<"s">> THEN col_id ELSE price)
InfoCatalogs == {[k \in InfoKeys |-> IF k \in present THEN {InfoColumn(k)} ELSE {}] :
                    present \in SUBSET InfoKeys}
QueryNames == NamesOver(SchemaChars \cup {"."}, MaxName)

InspectInit ==
    /\ IdleNorm
    /\ connection = "none"
    /\ engine = "none"
    /\ txn = "idle"
    /\ tables = [t \in TableNames |-> <<>>]
    /\ catalog \in InfoCatalogs
    /\ clock = 0
    /\ last = NoLoad(0)
    /\ orch = NoRun

\* the effect of one call of get_table_columns that returned g
InspectEffect(table_name, connOK, kind, g) ==
    /\ connection' = g.conn
    /\ txn' = g.txn
    /\ last' = [op |-> "inspect", seq |-> last.seq + 1, name |-> table_name,
                connOK |-> connOK, kind |-> kind, pre |-> Db,
                cols |-> g.cols, failed |-> g.failed]
    /\ UNCHANGED <<normVars, engine, tables, catalog, clock, orch>>

\* one call of get_table_columns
Inspect ==
    /\ last.seq <= MaxHistory
    /\ \E table_name \in QueryNames, connOK \in ConnectOutcomes,
          kind \in {"none"} \cup FaultKinds :
         /\ (connection = "none" /\ ~connOK) => kind = "none"
         /\ InspectEffect(table_name, connOK, kind,
                          get_table_columns(connection, txn, catalog, table_name,
                                            connOK, kind))

InspectNext == Inspect

SpecInspect == InspectInit /\ [][InspectNext]_vars

\* the name splits at its first dot into schema and table
SplitsInto(table_name, schema, table) ==
    \E i \in 1..Len(table_name) :
        /\ table_name[i] = "."
        /\ \A j \in 1..(i - 1) : table_name[j] # "."
        /\ schema = SubSeq(table_name, 1, i - 1)
        /\ table = SubSeq(table_name, i + 1, Len(table_name))

\* the column names the catalog lists for the name: those of (schema, table)
\* for a qualified name, those of the table in any schema otherwise
ListedColumns(info, table_name) ==
    {c \in UNION {info[k] : k \in DOMAIN info} :
        \E k \in DOMAIN info :
            /\ c \in info[k]
            /\ IF HasDot(table_name) THEN SplitsInto(table_name, k[1], k[2])
               ELSE k[2] = table_name}

\* C12: get_table_columns returns the empty list when no connection is
\* available, when the catalog query errors and when the catalog lists no
\* column for the table; otherwise it returns the columns of (schema, table)
\* for a qualified name and of the table alone for an unqualified one.
C12_InspectorDegrades ==
    last.op = "inspect" =>
        /\ (last.pre.connection = "none" /\ ~last.connOK) => last.cols = {}
        /\ (last.kind # "none" \/ last.pre.connection \in {"broken", "closed"}
               \/ last.pre.txn = "aborted") => last.cols = {}
        /\ last.failed => last.cols = {}
        /\ ~last.failed => last.cols = ListedColumns(catalog, last.name)
        /\ ListedColumns(catalog, last.name) = {} => last.cols = {}

C12_Witness ==
    /\ last.op = "inspect"
    /\ last.name = <<"s", ".", "t">>
    /\ ~last.failed
    /\ catalog[<<(<<"s">>), (<<"t">>)>>] = {loaded_at}
    /\ catalog[<<(<<"t">>), (<<"t">>)>>] = {price}
    /\ last.cols = {loaded_at}

(***************************************************************************)
(* The orchestrator: MainExtractor.run_extraction over the mappings of the *)
(* configuration; every iteration of a loop of extract_all is one step.    *)
(***************************************************************************)
\* str.endswith
EndsWith(str, suffix) ==
    /\ Len(str) >= Len(suffix)
    /\ SubSeq(str, Len(str) - Len(suffix) + 1, Len(str)) = suffix

\* the payload of every response of the model: one object, or a table of one row
OneRow == [cols |-> <<Id, Price>>, n |-> 1]
OneObject == [isList |-> FALSE, item |-> Records(OneRow)[1]]

\* mutant of HttpRequests: the format is tested before the download
HttpRequestsIfSupported(file_key) ==
    IF EndsWith(Lower(file_key), dot_json) \/ EndsWith(Lower(file_key), dot_csv)
    THEN 1 ELSE 0

\* the calls of requests.get of one extract_file, line 58: the file is
\* downloaded once, before its format is tested
HttpRequests(file_key) == 1

\* the result of extract_file or extract_endpoint once the loader has returned r
Loaded(r, loader, requests) ==
    [db |-> r.db, ok |-> r.ret = "true", loader |-> loader, requests |-> requests]

\* the result of an entry that ends before a loader is called
NotLoaded(db, requests) ==
    [db |-> db, ok |-> FALSE, loader |-> "none", requests |-> requests]

\* PublicS3Extractor.extract_file; a raised exception of a loader is caught
\* by extract_from_object and extract_from_dataframe
ExtractFile(db, cat, file_key, table_name, env) ==
    IF env.fetch = "error"
    THEN NotLoaded(db, HttpRequests(file_key))
    ELSE IF EndsWith(Lower(file_key), dot_json)
    THEN IF env.fetch = "unparsable"
         THEN NotLoaded(db, HttpRequests(file_key))
         ELSE Loaded(JsonLoad(db, cat, OneObject, table_name, <<file_key>>, None, None,
                              env.load), "json", HttpRequests(file_key))
    ELSE IF EndsWith(Lower(file_key), dot_csv)
    THEN IF env.fetch = "unparsable"
         THEN NotLoaded(db, HttpRequests(file_key))
         ELSE Loaded(CsvLoad(db, cat, OneRow, table_name, <<file_key>>, env.load), "csv",
                     HttpRequests(file_key))
    ELSE NotLoaded(db, HttpRequests(file_key))

\* APIExtractor.extract_endpoint; make_api_request_with_details calls
\* requests.get once and returns None on every failure
ExtractEndpoint(db, cat, endpoint, table_name, env) ==
    IF env.fetch # "ok"
    THEN NotLoaded(db, 1)
    ELSE Loaded(JsonLoad(db, cat, OneObject, table_name, <<endpoint>>, <<endpoint>>,
                         <<200>>, env.load), "json", 1)

\* mutant of StageResult: one successful entry is enough
StageResultAny(successful, total) == successful > 0 \/ total = 0

\* successful_extractions == total of both extract_all
StageResult(successful, total) == successful = total

\* DatabaseConnector.close_connection: the connection object is kept
close_connection(conn) == IF conn = "none" THEN conn ELSE "closed"

FileEntries == {[key |-> items_json, table |-> "lnd_items"],
                [key |-> export_CSV, table |-> "lnd_prices"],
                [key |-> notes_txt, table |-> "lnd_items"]}
EndpointEntries == {[key |-> url_items, table |-> "lnd_items"],
                    [key |-> url_users, table |-> "lnd_items"]}

\* the ordered mappings of at most MaxEntries entries with distinct keys
Mappings(entries) ==
    UNION {{q \in [1..k -> entries] : \A i, j \in 1..k : i # j => q[i].key # q[j].key} :
              k \in 0..MaxEntries}

Sources == {"all", "s3", "api"}

OrchInit ==
    /\ IdleNorm
    /\ InitDb(DocCatalogs, StructCatalogs)
    /\ last = NoLoad(0)
    /\ \E files \in Mappings(FileEntries), endpoints \in Mappings(EndpointEntries) :
          orch = [pc |-> "idle", files |-> files, endpoints |-> endpoints,
                  source |-> "all", i |-> 1, successful |-> 0,
                  s3log |-> <<>>, apilog |-> <<>>,
                  s3_success |-> FALSE, api_success |-> FALSE, ret |-> FALSE,
                  runs |-> 1]

\* the outcomes of the environment during one entry
EntryEnvs ==
    {[fetch |-> f, load |-> [connOK |-> c, engineOK |-> e, fault |-> x, times |-> t]] :
        f \in {"ok", "error", "unparsable"}, c \in ConnectOutcomes, e \in EngineOutcomes,
        x \in Faults({-2} \cup 0..3), t \in Times(2)}

\* MainExtractor.run_extraction
RunExtraction ==
    /\ orch.pc = "idle"
    /\ \E source \in Sources :
          orch' = [orch EXCEPT !.pc = IF source = "api" THEN "api" ELSE "s3",
                               !.source = source, !.i = 1, !.successful = 0]
    /\ UNCHANGED <<normVars, dbVars, last>>

\* an entry that reaches no loader leaves the environment of the loaders unread
EntryEnvRead(env, r) ==
    r.loader = "none" =>
        (env.load.fault = NoFault /\ env.load.connOK /\ env.load.engineOK
         /\ env.load.times = <<clock, clock>>)

\* what one entry did: its fetch, the loader it reached, its HTTP requests
\* and the state it started from
EntryRecord(kind, entry, env, r) ==
    [op |-> "entry", kind |-> kind, key |-> entry.key, table |-> entry.table,
     fetch |-> env.fetch, ok |-> r.ok, loader |-> r.loader,
     requests |-> r.requests, pre |-> Db, seq |-> 0,
     \* what get_connection returned to the loader of the entry
     obtained |-> IF r.loader = "none" THEN "none"
                  ELSE get_connection(connection, env.load.connOK),
     \* nothing failed in the environment during the entry itself
     faultless |-> env.fetch = "ok" /\ env.load.fault = NoFault
                   /\ env.load.connOK /\ env.load.engineOK]

\* lines 107-110 of S3_Extractor.py: the tally after extract_file returned r
S3Tally(entry, env, r) ==
    /\ EntryEnvRead(env, r)
    /\ SetDb(r.db)
    /\ orch' = [orch EXCEPT
                  !.i = @ + 1,
                  !.successful = IF r.ok THEN @ + 1 ELSE @,
                  !.s3log = Append(@, [key |-> entry.key, ok |-> r.ok])]
    /\ last' = EntryRecord("s3", entry, env, r)

\* one iteration of the loop of PublicS3Extractor.extract_all
S3Entry ==
    /\ orch.pc = "s3"
    /\ orch.i <= Len(orch.files)
    /\ \E env \in EntryEnvs :
          S3Tally(orch.files[orch.i], env,
                  ExtractFile(Db, catalog, orch.files[orch.i].key,
                              orch.files[orch.i].table, env))
    /\ UNCHANGED <<normVars, catalog>>

\* the return of PublicS3Extractor.extract_all and of extract_from_s3
S3Done ==
    /\ orch.pc = "s3"
    /\ orch.i > Len(orch.files)
    /\ orch' = [orch EXCEPT
                  !.s3_success = StageResult(orch.successful, Len(orch.files)),
                  !.pc = IF orch.source = "all" THEN "api" ELSE "return",
                  !.i = 1, !.successful = 0]
    /\ UNCHANGED <<normVars, dbVars, last>>

\* lines 134-137 of API_Extractor.py: the tally after extract_endpoint returned r
APITally(entry, env, r) ==
    /\ EntryEnvRead(env, r)
    /\ env.load.engineOK
    /\ SetDb(r.db)
    /\ orch' = [orch EXCEPT
                  !.i = @ + 1,
                  !.successful = IF r.ok THEN @ + 1 ELSE @,
                  !.apilog = Append(@, [key |-> entry.key, ok |-> r.ok])]
    /\ last' = EntryRecord("api", entry, env, r)

\* one iteration of the loop of APIExtractor.extract_all
APIEntry ==
    /\ orch.pc = "api"
    /\ orch.i <= Len(orch.endpoints)
    /\ \E env \in EntryEnvs :
          APITally(orch.endpoints[orch.i], env,
                   ExtractEndpoint(Db, catalog, orch.endpoints[orch.i].key,
                                   orch.endpoints[orch.i].table, env))
    /\ UNCHANGED <<normVars, catalog>>

\* the return of APIExtractor.extract_all and of extract_from_api
APIDone ==
    /\ orch.pc = "api"
    /\ orch.i > Len(orch.endpoints)
    /\ orch' = [orch EXCEPT
                  !.api_success = StageResult(orch.successful, Len(orch.endpoints)),
                  !.pc = "return", !.i = 1, !.successful = 0]
    /\ UNCHANGED <<normVars, dbVars, last>>

\* the return of run_extraction; extract_all closes the connection on exit
Return ==
    /\ orch.pc = "return"
    /\ orch' = [orch EXCEPT
                  !.pc = "done",
                  !.ret = IF orch.source = "all" THEN orch.s3_success /\ orch.api_success
                          ELSE IF orch.source = "s3" THEN orch.s3_success
                          ELSE orch.api_success]
    /\ connection' = IF orch.source = "all" THEN close_connection(connection)
                     ELSE connection
    /\ UNCHANGED <<normVars, engine, txn, tables, catalog, clock, last>>

\* run_extraction has returned and is called again on the same MainExtractor
RunAgain ==
    /\ orch.pc = "done"
    /\ orch.runs < MaxRuns
    /\ orch' = [orch EXCEPT !.pc = "idle", !.runs = @ + 1, !.i = 1, !.successful = 0,
                             !.s3log = <<>>, !.apilog = <<>>,
                             !.s3_success = FALSE, !.api_success = FALSE, !.ret = FALSE]
    /\ last' = NoLoad(0)
    /\ UNCHANGED <<normVars, dbVars>>

OrchNext == RunExtraction \/ S3Entry \/ S3Done \/ APIEntry \/ APIDone \/ Return

\* one MainExtractor with at most one entry per mapping, run repeatedly
LifeInit ==
    /\ IdleNorm
    /\ InitDb(DocCatalogs, StructCatalogs)
    /\ last = NoLoad(0)
    /\ \E files \in Mappings(FileEntries), endpoints \in Mappings(EndpointEntries) :
          /\ Len(files) <= 1
          /\ Len(endpoints) <= 1
          /\ orch = [pc |-> "idle", files |-> files, endpoints |-> endpoints,
                     source |-> "all", i |-> 1, successful |-> 0,
                     s3log |-> <<>>, apilog |-> <<>>,
                     s3_success |-> FALSE, api_success |-> FALSE, ret |-> FALSE,
                     runs |-> 1]

LifeNext ==
    RunExtraction \/ S3Entry \/ S3Done \/ APIEntry \/ APIDone \/ Return \/ RunAgain

SpecLife == LifeInit /\ [][LifeNext]_vars

SpecOrch == OrchInit /\ [][OrchNext]_vars

Keys(mapping) == [i \in 1..Len(mapping) |-> mapping[i].key]
LogKeys(log) == [i \in 1..Len(log) |-> log[i].key]
AllOk(log) == \A i \in 1..Len(log) : log[i].ok

\* C7: each extract_all processes every entry of its mapping once, in
\* mapping order, whatever entries fail, and returns true iff every entry
\* succeeded (true for an empty mapping); the full run processes the API
\* mapping even after a failed S3 stage and returns true iff both stages did.
C7_Aggregation ==
    /\ orch.pc = "s3" => LogKeys(orch.s3log) = SubSeq(Keys(orch.files), 1, orch.i - 1)
    /\ orch.pc = "api" => LogKeys(orch.apilog) = SubSeq(Keys(orch.endpoints), 1, orch.i - 1)
    /\ (orch.pc \in {"return", "done"} /\ orch.source # "api") =>
           /\ LogKeys(orch.s3log) = Keys(orch.files)
           /\ orch.s3_success = AllOk(orch.s3log)
    /\ (orch.pc \in {"return", "done"} /\ orch.source # "s3") =>
           /\ LogKeys(orch.apilog) = Keys(orch.endpoints)
           /\ orch.api_success = AllOk(orch.apilog)
    /\ (orch.pc = "done" /\ orch.source = "all") =>
           orch.ret = (AllOk(orch.s3log) /\ AllOk(orch.apilog))
    /\ (orch.pc = "done" /\ orch.source = "s3") => orch.ret = AllOk(orch.s3log)
    /\ (orch.pc = "done" /\ orch.source = "api") => orch.ret = AllOk(orch.apilog)

C7_Witness ==
    /\ orch.pc = "done"
    /\ orch.source = "all"
    /\ Len(orch.files) = 2
    /\ ~orch.s3log[1].ok /\ orch.s3log[2].ok
    /\ Len(orch.apilog) = 2
    /\ orch.apilog[1].ok /\ ~orch.apilog[2].ok
    /\ ~orch.ret

\* the key has a format extract_file handles
Supported(file_key) ==
    \/ EndsWith(Lower(file_key), dot_json)
    \/ EndsWith(Lower(file_key), dot_csv)

\* C14: an object-storage entry with an unsupported extension, and any entry
\* whose HTTP request fails or whose body cannot be parsed, returns false
\* after exactly one HTTP request, reaches no loader and leaves every table
\* and the database session as they were.
C14_FailedFetchUntouched ==
    (last.op = "entry"
        /\ (last.fetch # "ok" \/ (last.kind = "s3" /\ ~Supported(last.key))))
        => /\ ~last.ok
           /\ last.requests = 1
           /\ last.loader = "none"
           /\ tables = last.pre.tables
           /\ txn = last.pre.txn
           /\ connection \in {last.pre.connection, close_connection(last.pre.connection)}

C14_Witness ==
    /\ last.op = "entry"
    /\ last.kind = "s3"
    /\ last.key = notes_txt
    /\ last.fetch = "ok"
    /\ last.pre.tables[last.table] # <<>>
    /\ tables = last.pre.tables
    /\ ~last.ok
    /\ last.requests = 1

\* C19: an entry whose own fetch and load meet no failure of the environment
\* succeeds, whatever the earlier entries of the run did to the shared
\* connection.
C19_EntriesIsolated ==
    (last.op = "entry" /\ last.faultless
        /\ (last.kind = "api" \/ Supported(last.key)))
        => last.ok

(***************************************************************************)
(* Specification of the structured branch over destinations that declare   *)
(* none of the source columns, or that the catalog does not list.          *)
(***************************************************************************)
SparseCatalogs == {{}, {order_date, loaded_at}, {order_date, loaded_at, source_file}}

SparseInit ==
    /\ IdleNorm
    /\ InitDb(DocCatalogs, SparseCatalogs)
    /\ last = NoLoad(0)
    /\ orch = NoRun

SparseNext == EarlierCSVLoad \/ CSVLoad

SpecSparse == SparseInit /\ [][SparseNext]_vars

\* the rows the destination held before the call are still its first rows
PriorRowsKept ==
    /\ Len(tables[last.table]) >= Len(last.pre.tables[last.table])
    /\ SubSeq(tables[last.table], 1, Len(last.pre.tables[last.table]))
           = last.pre.tables[last.table]

\* C22: when the Schema Inspector returns an empty list to
\* CSVExtractor.load_to_landing, or when no source column matches a
\* destination column, the call does not truncate the destination: its prior
\* rows are unchanged.
C22_EmptyListKeepsRows ==
    (last.op = "csv"
        /\ (last.table_columns = {} \/ NormalizedNames(last.df) \cap last.table_columns = {}))
        => PriorRowsKept

(***************************************************************************)
(* Specification of the column filter alone, lines 54-65 of                *)
(* CSVExtractor.load_to_landing: the source columns are pairwise distinct   *)
(* names, the destination declares table_columns.                          *)
(***************************************************************************)
loadedAt == <<"l","o","a","d","e","d","A","t">>

SourceNames == {userID, user_id, loadedAt, loaded_at, source_file, Price}

RECURSIVE DistinctSeqs(_, _)
DistinctSeqs(S, n) ==
    IF n = 0 THEN {<<>>}
    ELSE LET shorter == DistinctSeqs(S, n - 1)
             longest == {t \in shorter : Len(t) = n - 1}
         IN  shorter \cup UNION {{Append(q, c) : c \in S \ Range(q)} : q \in longest}

FilterCatalogs == {{}, {user_id, price}, {user_id, price, loaded_at},
                   {user_id, price, loaded_at, source_file}}

\* line 65: df[matching_columns] takes, for every label of the list, every
\* column of df that carries the label
FilteredColumns(columns, matching) ==
    LET Pick(acc, m) == acc \o SelectSeq(columns, LAMBDA c : c = m)
        RECURSIVE Fold(_, _)
        Fold(acc, k) == IF k > Len(matching) THEN acc ELSE Fold(Pick(acc, matching[k]), k + 1)
    IN  Fold(<<>>, 1)

FilterInit ==
    /\ IdleNorm
    /\ InitDb(DocCatalogs, StructCatalogs)
    /\ orch = NoRun
    /\ \E cols \in DistinctSeqs(SourceNames, MaxCols), tc \in FilterCatalogs, sfile \in FileNames :
          last = [op |-> "frame", cols |-> cols, table_columns |-> tc, sfile |-> sfile]

\* lines 54-65 applied to the table of the state
FilterEffect(columns, matching) ==
    /\ last' = [op |-> "filtered", cols |-> last.cols, table_columns |-> last.table_columns,
                sfile |-> last.sfile, columns |-> columns, matching |-> matching,
                filtered |-> FilteredColumns(columns, matching)]
    /\ UNCHANGED <<normVars, dbVars, orch>>

FilterColumns(columns) ==
    FilterEffect(columns, MatchingColumns(columns, last.table_columns))

Filter ==
    /\ last.op = "frame"
    /\ FilterColumns(StructuredColumns([cols |-> last.cols, n |-> 0], last.table_columns,
                                       last.sfile))

FilterNext == Filter

SpecFilter == FilterInit /\ [][FilterNext]_vars

NoDuplicates(q) == \A i, j \in 1..Len(q) : q[i] = q[j] => i = j

\* C21: in structured mode, for an input table with pairwise distinct source
\* column names, the column list handed to the bulk append holds each
\* destination column name at most once.
C21_NoDuplicateColumns ==
    last.op = "filtered" =>
        /\ NoDuplicates(last.matching)
        /\ NoDuplicates(last.filtered)

\* C20: get_connection creates the connection on first use, returns that
\* connection on every later call and never one that close_connection has
\* closed, so that a run after extract_all loads over an open connection.
C20_ConnectionLifecycle ==
    (last.op = "entry" /\ last.loader # "none") =>
        /\ last.pre.connection # "none" => last.obtained = last.pre.connection
        /\ last.obtained # "closed"

NormInit ==
    /\ name \in NamesUpTo(MaxLen) \cup ExampleNames
    /\ out = <<>>
    /\ out2 = <<>>
    /\ npc = "input"
    /\ IdleDb

Normalize ==
    /\ npc = "input"
    /\ out' = camel_to_snake(name)
    /\ npc' = "once"
    /\ UNCHANGED <<name, out2, dbVars, last, orch>>

Renormalize ==
    /\ npc = "once"
    /\ out2' = camel_to_snake(out)
    /\ npc' = "twice"
    /\ UNCHANGED <<name, out, dbVars, last, orch>>

NormNext == Normalize \/ Renormalize

SpecNorm == NormInit /\ [][NormNext]_vars

\* C9: column normalization is idempotent: normalizing the normalized name
\* of any name over the alphabet returns it unchanged.
C9_Idempotent == npc = "twice" => out2 = out

C9_Witness == npc = "twice" /\ out # name /\ out # <<>> /\ out2 = out

IsCanonical(s) ==
    /\ \A i \in 1..Len(s) : s[i] \notin UpperChars \cup SpaceOrDash
    /\ \A i \in 1..(Len(s) - 1) : ~(s[i] = "_" /\ s[i + 1] = "_")
    /\ s # <<>> => (s[1] # "_" /\ s[Len(s)] # "_")

UnderscoreAtTransitions(s, r) ==
    \A i \in 1..(Len(s) - 1) :
        (s[i] \in LowerChars \cup DigitChars /\ s[i + 1] \in UpperChars)
            => \E j \in 1..(Len(r) - 2) :
                   /\ r[j] = s[i]
                   /\ r[j + 1] = "_"
                   /\ r[j + 2] = LowerChar(s[i + 1])

\* C10: the normalized name has no upper-case letter, no whitespace, no
\* hyphen, no doubled underscore and no underscore at either end, has an
\* underscore at every lower-case-or-digit to upper-case transition, and the
\* three example names give user_id, first_name and order_date.
C10_Canonical ==
    npc # "input" =>
        /\ IsCanonical(out)
        /\ UnderscoreAtTransitions(name, out)
        /\ name = userID => out = user_id
        /\ name = FirstName => out = first_name
        /\ name = orderDate => out = order_date

C10_Witness == npc = "once" /\ name = userID /\ out = user_id

====
